---- MODULE Spec2Model ----
(***************************************************************************)
(* django-nublado-translation: the metaclass TranslationBase that derives  *)
(* a translation model from a source model, the storage of translation     *)
(* rows under the derived uniqueness constraints, and the translation      *)
(* lookups of TranslationSourceModel.                                      *)
(***************************************************************************)
EXTENDS Naturals, Sequences, FiniteSets, TLC

VARIABLES
    decl,      \* the class body handed to TranslationBase.__new__
    phase,     \* "declared" before the metaclass ran, "derived" after
    entity,    \* what TranslationBase.__new__ produced (or raised)
    sources,   \* the primary keys of the stored source rows
    rows,      \* the stored translation rows of the derived model
    nextId,    \* the next primary key of a translation row
    inst,      \* the in-memory source instance the lookups run on
    other,     \* a second in-memory source instance the program holds
    ret        \* the last call and what it returned or raised

vars == <<decl, phase, entity, sources, rows, nextId, inst, other, ret>>

(***************************************************************************)
(* Bounds of the model.                                                    *)
(***************************************************************************)
\* longest translation_fields list of a declaration
MaxFields == 2
\* most translation rows ever created
MaxRows == 2
\* most source rows ever created
MaxSources == 2

(***************************************************************************)
(* Python values.                                                          *)
(***************************************************************************)
\* Python's None, for attributes whose other values are strings
None == "None"
\* a name the class body does not bind (attrs.get returns its default)
Unset == "<unset>"

\* the exception classes __new__ raises
ImproperlyConfigured == "ImproperlyConfigured"
ValueError == "ValueError"
\* what the lookups raise when the reverse accessor is missing
AttributeError == "AttributeError"
\* what the storage raises on a violated UniqueConstraint
IntegrityError == "IntegrityError"

(***************************************************************************)
(* Fields and source models.                                               *)
(***************************************************************************)
\* a concrete column of a model, with the flags __new__ reads
Column(name, kind, pk, unique) ==
    [name |-> name, kind |-> kind, primary_key |-> pk, unique |-> unique,
     is_relation |-> FALSE, to |-> None, related_name |-> None,
     editable |-> TRUE, on_delete |-> None, verbose_name |-> None]

\* models.ForeignKey(to, related_name=..., editable=..., on_delete=CASCADE)
ForeignKey(name, to, related_name, editable, verbose_name) ==
    [name |-> name, kind |-> "ForeignKey", primary_key |-> FALSE,
     unique |-> FALSE, is_relation |-> TRUE, to |-> to,
     related_name |-> related_name, editable |-> editable,
     on_delete |-> "CASCADE", verbose_name |-> verbose_name]

\* TranslationLanguageModel.language: CharField with the language choices
LanguageField == Column("language", "LanguageChoices", FALSE, FALSE)

\* the fields every translation model inherits from TranslationLanguageModel
InheritedFields == ("language" :> LanguageField)

\* the declaration has no source_model (the attribute is None)
NoSourceModel ==
    [name |-> None, db_table |-> "", translatable |-> FALSE, fields |-> <<>>]

\* tests/models.py: TranslationSourceTestModel (translatable TRUE) and the
\* same fields on a model that does not subclass TranslationSourceModel
TestSourceModel(translatable) ==
    [name |-> "TranslationSourceTestModel",
     db_table |-> "test_translation_source_model",
     translatable |-> translatable,
     fields |-> << Column("id", "BigAutoField", TRUE, TRUE),
                   Column("name", "CharField", FALSE, FALSE),
                   Column("slug", "SlugField", FALSE, TRUE) >>]

\* a source model that also has a relation and columns named like the
\* fields __new__ itself puts on the translation model: "language" and
\* "source"; u is the unique flag of the column "source"
ArticleModel(translatable, u) ==
    [name |-> "Article",
     db_table |-> "article",
     translatable |-> translatable,
     fields |-> << Column("id", "BigAutoField", TRUE, TRUE),
                   Column("name", "CharField", FALSE, FALSE),
                   Column("slug", "SlugField", FALSE, TRUE),
                   ForeignKey("owner", "auth_user", None, TRUE, None),
                   Column("language", "CharField", FALSE, FALSE),
                   Column("source", "CharField", FALSE, u) >>]

\* the models a declaration may name as source_model
SourceModels ==
    {TestSourceModel(t) : t \in BOOLEAN}
        \cup {ArticleModel(t, u) : t \in BOOLEAN, u \in BOOLEAN}

\* the names a translation_fields list may hold; "missing" is no field of
\* any source model
FieldNames == {"id", "name", "slug", "owner", "language", "source", "missing"}

\* the translation_fields lists of the declarations
FieldLists == UNION {[1..n -> FieldNames] : n \in 0..MaxFields}

(***************************************************************************)
(* Constraints.                                                            *)
(***************************************************************************)
\* models.UniqueConstraint(fields=..., name=...)
UniqueConstraint(fields, name) ==
    [type |-> "UniqueConstraint", fields |-> fields, name |-> name]

\* the CheckConstraint a Meta inherits from TranslationLanguageModel.Meta
LanguageCheckConstraint ==
    [type |-> "CheckConstraint", fields |-> <<"language">>,
     name |-> "language_valid"]

\* Meta.constraints as the class body declares it
InlineConstraints == {<<>>, <<LanguageCheckConstraint>>}

(***************************************************************************)
(* Declarations: the class bodies TranslationBase.__new__ is called with.  *)
(***************************************************************************)
Declarations ==
    [abstract : BOOLEAN,
     marker : BOOLEAN,
     source_model : SourceModels \cup {NoSourceModel},
     source_name : {Unset, "parent"},
     translations_name : {Unset, "localized"},
     translation_fields : FieldLists,
     constraints : InlineConstraints]

\* attrs.get(key, default)
AttrGet(value, default) == IF value = Unset THEN default ELSE value

(***************************************************************************)
(* TranslationBase.__new__                                                 *)
(***************************************************************************)
\* the outcome of __new__: the class it returned, or the exception
Outcome(status, message, attrs, constraints, source_model) ==
    [status |-> status,
     message |-> message,
     \* the fields of the new class: its own attrs over the inherited ones
     fields |-> IF status \in {"ok", "abstract"}
                THEN attrs @@ InheritedFields ELSE <<>>,
     constraints |-> constraints,
     \* a concrete model class was created and registered with the app
     registered |-> status = "ok",
     \* the reverse accessors the new class's relations add to the source
     related |-> IF status = "ok"
                 THEN {attrs[n].related_name :
                         n \in {m \in DOMAIN attrs : attrs[m].is_relation}}
                 ELSE {},
     \* the source model's own fields after the call
     source_fields |-> source_model.fields]

\* raise exc(message): no class is created
Raise(exc, message, source_model) ==
    Outcome(exc, message, <<>>, <<>>, source_model)

\* {f.name: f for f in source_model._meta.concrete_fields}.get(field_name)
SourceFieldIndex(source_model, field_name) ==
    {j \in 1..Len(source_model.fields) :
        source_model.fields[j].name = field_name}

\* the three checks of one name of translation_fields against the source
\* field of that name: the exception to raise, or None
FieldCheck(source_model, field_name) ==
    LET found == SourceFieldIndex(source_model, field_name)
    IN  IF found = {}
        THEN [error |-> ImproperlyConfigured,
              message |-> "Field '" \o field_name
                  \o "' does not exist in source model '"
                  \o source_model.name \o "'"]
        ELSE IF source_model.fields[CHOOSE j \in found : TRUE].primary_key
        THEN [error |-> ImproperlyConfigured,
              message |-> "Primary key fields cannot be translated."]
        ELSE IF source_model.fields[CHOOSE j \in found : TRUE].is_relation
        THEN [error |-> ImproperlyConfigured,
              message |-> "Relational field '" \o field_name
                  \o "' cannot be translated."]
        ELSE [error |-> None, message |-> ""]

\* a variant of FieldCopy in which the copy keeps the unique flag of the source field
FieldCopyKeepsUnique(source_field) == source_field

\* field_copy = copy.deepcopy(source_field); field_copy.unique = False
FieldCopy(source_field) == [source_field EXCEPT !.unique = FALSE]

\* a variant of SourceFieldAfterCopy in which the copy is the source field
\* itself, so that what is set on the copy is set on the source
SourceFieldShared(source_field, field_copy) == field_copy

\* the source field after copy.deepcopy(source_field) and the assignments
\* to the copy: the deep copy shares nothing with it, so it is as it was
SourceFieldAfterCopy(source_field, field_copy) == source_field

\* the source model after the loop over translation_fields copied the
\* fields it names
SourceAfterCopies(source_model, translation_fields) ==
    [source_model EXCEPT !.fields =
        [j \in 1..Len(source_model.fields) |->
            IF \E i \in 1..Len(translation_fields) :
                   translation_fields[i] = source_model.fields[j].name
            THEN SourceFieldAfterCopy(source_model.fields[j],
                                      FieldCopy(source_model.fields[j]))
            ELSE source_model.fields[j]]]

\* the loop over translation_fields: copies each field into attrs, or
\* stops at the first name that cannot be translated
RECURSIVE CopyFields(_, _, _, _, _)
CopyFields(source_model, translation_fields, i, attrs, unique_fields) ==
    IF i > Len(translation_fields)
    THEN [error |-> None, message |-> "", attrs |-> attrs,
          unique_fields |-> unique_fields]
    ELSE
        LET field_name == translation_fields[i]
            check == FieldCheck(source_model, field_name)
        IN  IF check.error # None
            THEN [error |-> check.error, message |-> check.message,
                  attrs |-> attrs, unique_fields |-> unique_fields]
            ELSE
                LET source_field ==
                        source_model.fields[
                            CHOOSE j \in SourceFieldIndex(source_model,
                                                          field_name) : TRUE]
                    uniq == IF source_field.unique
                            THEN Append(unique_fields, source_field.name)
                            ELSE unique_fields
                IN  CopyFields(source_model, translation_fields, i + 1,
                               (field_name :> FieldCopy(source_field)) @@ attrs,
                               uniq)

\* [UniqueConstraint(["language", f], "<table>_language_<f>_unique") for f in unique_fields]
RECURSIVE UniqueFieldConstraints(_, _, _)
UniqueFieldConstraints(source_model, unique_fields, i) ==
    IF i > Len(unique_fields) THEN <<>>
    ELSE <<UniqueConstraint(<<"language", unique_fields[i]>>,
                            source_model.db_table \o "_language_"
                                \o unique_fields[i] \o "_unique")>>
         \o UniqueFieldConstraints(source_model, unique_fields, i + 1)

\* the constraint "one translation per language per source"
SourceConstraint(source_model, source_name) ==
    UniqueConstraint(<<"language", source_name>>,
                     source_model.db_table \o "_language_source_unique")

\* a variant of DerivedConstraints in which the source constraint is not
\* appended
ConstraintsWithoutSource(inline, source_model, source_name, unique_fields) ==
    inline \o UniqueFieldConstraints(source_model, unique_fields, 1)

\* a variant of DerivedConstraints in which the source constraint comes
\* last
ConstraintsSourceLast(inline, source_model, source_name, unique_fields) ==
    inline
        \o UniqueFieldConstraints(source_model, unique_fields, 1)
        \o <<SourceConstraint(source_model, source_name)>>

\* meta_class.constraints: the declared constraints, then the source
\* constraint, then one constraint per unique field
DerivedConstraints(inline, source_model, source_name, unique_fields) ==
    inline
        \o <<SourceConstraint(source_model, source_name)>>
        \o UniqueFieldConstraints(source_model, unique_fields, 1)

\* attrs[source_name] = models.ForeignKey(source_model, ...)
SourceForeignKey(source_model, source_name, translations_name) ==
    ForeignKey(source_name, source_model.db_table, translations_name,
               FALSE, source_name)

\* the exception of the check of source_model's type
SourceTypeError == ValueError

\* a variant of IsAbstract in which Meta.abstract is not looked at
IsAbstractIgnored(d) == FALSE

\* getattr(meta_class, "abstract", False)
IsAbstract(d) == d.abstract

\* the whole of TranslationBase.__new__ on a class body
TranslationBaseNew(d) ==
    IF IsAbstract(d)
    THEN Outcome("abstract", "", <<>>, d.constraints, d.source_model)
    ELSE IF ~d.marker
    THEN Raise(ImproperlyConfigured,
               "must subclass TranslationModel directly or indirectly.",
               d.source_model)
    ELSE IF d.source_model = NoSourceModel
    THEN Raise(ImproperlyConfigured, "attr: source_model is required.",
               d.source_model)
    ELSE IF ~d.source_model.translatable
    THEN Raise(SourceTypeError,
               "Source model must subclass TranslationSourceModel.",
               d.source_model)
    ELSE
        LET source_name == AttrGet(d.source_name, "source")
            translations_name == AttrGet(d.translations_name, "translations")
            attrs0 == (source_name :>
                          SourceForeignKey(d.source_model, source_name,
                                           translations_name))
            copied == CopyFields(d.source_model, d.translation_fields, 1,
                                 attrs0, <<>>)
        IN  IF copied.error # None
            THEN Raise(copied.error, copied.message, d.source_model)
            ELSE Outcome("ok", "", copied.attrs,
                         DerivedConstraints(d.constraints, d.source_model,
                                            source_name, copied.unique_fields),
                         SourceAfterCopies(d.source_model,
                                           d.translation_fields))

\* no class yet: the value of entity before the metaclass ran
NoEntity == Raise("pending", "", NoSourceModel)

(***************************************************************************)
(* Language settings.                                                      *)
(***************************************************************************)
\* settings.LANGUAGES of the test project: the language codes, in order
LANGUAGES == <<"en", "es", "de">>

\* app_settings.SOURCE_LANGUAGE: defaults to settings.LANGUAGE_CODE
SOURCE_LANGUAGE == "en"

\* utils.get_translation_languages(): LANGUAGES without the source language
get_translation_languages ==
    SelectSeq(LANGUAGES, LAMBDA code : code # SOURCE_LANGUAGE)

\* key.replace("-", "_").upper() for the configured language codes
MemberName(key) ==
    CASE key = "en" -> "EN"
      [] key = "es" -> "ES"
      [] key = "de" -> "DE"

\* a variant of get_translation_languages_enum in which the source
\* language is a member too
EnumWithSourceLanguage ==
    [k \in 1..Len(LANGUAGES) |->
        [name |-> MemberName(LANGUAGES[k]), value |-> LANGUAGES[k]]]

\* utils.get_translation_languages_enum(): the members (name, value) of
\* the TextChoices, one per configured language but the source language
get_translation_languages_enum ==
    LET keys == SelectSeq(LANGUAGES, LAMBDA key : key # SOURCE_LANGUAGE)
    IN  [k \in 1..Len(keys) |->
            [name |-> MemberName(keys[k]), value |-> keys[k]]]

\* TranslationLanguageModel.LanguageChoices, the choices of the field
\* language
LanguageChoices == get_translation_languages_enum

\* the language codes callers pass: the configured ones and an unknown one
LanguageArgs == {LANGUAGES[i] : i \in 1..Len(LANGUAGES)} \cup {"fr"}

(***************************************************************************)
(* Storage: source rows and translation rows.                              *)
(***************************************************************************)
\* the text values of the mirrored columns
Texts == {"a", "b"}

\* is field n of the derived model the link to the source model
IsSourceLink(e, n) ==
    e.fields[n].is_relation /\ e.fields[n].kind = "ForeignKey"

\* the values a column of a translation row may take
ColumnValues(e, n, srcs) ==
    IF IsSourceLink(e, n) THEN srcs
    ELSE IF n = "language" THEN {LANGUAGES[i] : i \in 1..Len(LANGUAGES)}
    ELSE Texts

\* the keyword arguments of objects.create(...) on the derived model: a
\* value for each of the given fields
RECURSIVE RowValuesOver(_, _, _)
RowValuesOver(e, names, srcs) ==
    IF names = {} THEN {<<>>}
    ELSE LET n == CHOOSE m \in names : TRUE
         IN  {(n :> x) @@ v :
                 x \in ColumnValues(e, n, srcs),
                 v \in RowValuesOver(e, names \ {n}, srcs)}

RowValues(e, srcs) == RowValuesOver(e, DOMAIN e.fields, srcs)

\* does a stored row agree with the new values on every field of a
\* UniqueConstraint
UniqueViolated(c, stored, v) ==
    /\ c.type = "UniqueConstraint"
    /\ \E r \in stored : \A i \in 1..Len(c.fields) :
           r.values[c.fields[i]] = v[c.fields[i]]

\* the CheckConstraint on language: language__in the translation languages
CheckViolated(c, v) ==
    /\ c.type = "CheckConstraint"
    /\ \A i \in 1..Len(get_translation_languages) :
           get_translation_languages[i] # v["language"]

\* does the database reject the insert: a constraint of Meta.constraints,
\* or a column that is itself unique
IntegrityViolated(e, stored, v) ==
    \/ \E i \in 1..Len(e.constraints) :
           \/ UniqueViolated(e.constraints[i], stored, v)
           \/ CheckViolated(e.constraints[i], v)
    \/ \E n \in DOMAIN e.fields :
           e.fields[n].unique /\ \E r \in stored : r.values[n] = v[n]

(***************************************************************************)
(* Lookups of TranslationSourceModel.                                      *)
(***************************************************************************)
\* what a call returned or raised
RetRow(id) == [kind |-> "row", id |-> id, exc |-> ""]
RetNone == [kind |-> "None", id |-> 0, exc |-> ""]
RetSelf(pk) == [kind |-> "self", id |-> pk, exc |-> ""]
RetBool(b) == [kind |-> IF b THEN "True" ELSE "False", id |-> 0, exc |-> ""]
RetRaise(exc) == [kind |-> "raise", id |-> 0, exc |-> exc]
RetList(items) == [kind |-> "list", id |-> 0, exc |-> "", items |-> items]

ValidationError == "ValidationError"

\* full_clean() on a translation row as far as its language goes: the
\* value must be one of the choices of the field
clean_language(language) ==
    IF \E k \in 1..Len(LanguageChoices) : LanguageChoices[k].value = language
    THEN RetNone
    ELSE RetRaise(ValidationError)

\* the name of the reverse accessor translations_dict reads
TranslationsAccessor == "translations"

\* the translation rows self.translations.all() returns for source row pk:
\* the rows whose link to the source model is pk
RelatedRows(e, stored, pk) ==
    {r \in stored :
        \E n \in DOMAIN e.fields :
            /\ IsSourceLink(e, n)
            /\ e.fields[n].related_name = TranslationsAccessor
            /\ r.values[n] = pk}

\* {translation.language: translation for translation in ...all()}: the
\* rows come in primary-key order and a later row replaces an earlier one
DictOf(rs) ==
    [l \in {r.values["language"] : r \in rs} |->
        LET same == {r \in rs : r.values["language"] = l}
        IN  (CHOOSE r \in same : \A q \in same : q.id <= r.id).id]

\* a variant of TranslationsAll in which the rows are read from storage
\* although the instance holds a prefetched collection
TranslationsAllFromStorage(i, e, stored) ==
    [rows |-> RelatedRows(e, stored, i.pk), fetched |-> TRUE]

\* self.translations.all(): the collection the query prefetched into the
\* instance (_prefetched_objects_cache), else the rows fetched from storage
TranslationsAll(i, e, stored) ==
    IF i.prefetched
    THEN [rows |-> i.prefetch_cache, fetched |-> FALSE]
    ELSE [rows |-> RelatedRows(e, stored, i.pk), fetched |-> TRUE]

\* a variant of TranslationsDict in which the dict is built from
\* self.translations.all() at every read
TranslationsDictRebuilt(i, e, stored) ==
    IF TranslationsAccessor \notin e.related
    THEN [raised |-> TRUE, dict |-> <<>>]
    ELSE [raised |-> FALSE,
          dict |-> DictOf(TranslationsAll(i, e, stored).rows)]

\* the cached_property translations_dict on an instance: the cached dict,
\* else the dict built from self.translations.all(), else the
\* AttributeError of an instance that has no attribute "translations"
TranslationsDict(i, e, stored) ==
    IF i.cached THEN [raised |-> FALSE, dict |-> i.translations_dict]
    ELSE IF TranslationsAccessor \notin e.related
    THEN [raised |-> TRUE, dict |-> <<>>]
    ELSE [raised |-> FALSE,
          dict |-> DictOf(TranslationsAll(i, e, stored).rows)]

\* does reading translations_dict on the instance query the storage: not
\* when the dict is cached, the read raises, or the collection was
\* prefetched
ReadFetches(i, e, stored) ==
    /\ ~i.cached
    /\ ~TranslationsDict(i, e, stored).raised
    /\ TranslationsAll(i, e, stored).fetched

\* a variant of AfterRead in which the dict is not kept on the instance
AfterReadWithoutCache(i, e, stored) ==
    IF ReadFetches(i, e, stored) THEN [i EXCEPT !.fetches = @ + 1] ELSE i

\* the instance after translations_dict was read: the dict is cached
\* unless the read raised, and a read from storage is counted
AfterRead(i, e, stored) ==
    LET td == TranslationsDict(i, e, stored)
    IN  IF td.raised THEN i
        ELSE [i EXCEPT !.cached = TRUE, !.translations_dict = td.dict,
                       !.fetches = IF ReadFetches(i, e, stored)
                                   THEN @ + 1 ELSE @]

\* a variant of Bystander in which the instances of one source row share
\* the cached dict
BystanderSharesCache(o, i, e, stored) ==
    IF o.pk = i.pk /\ ~TranslationsDict(i, e, stored).raised
    THEN [o EXCEPT !.cached = TRUE,
                   !.translations_dict = TranslationsDict(i, e, stored).dict]
    ELSE o

\* an instance o the program holds after translations_dict was read on
\* another instance i: cached_property keeps the dict in the __dict__ of
\* the instance it was read on, so o is as it was
Bystander(o, i, e, stored) == o

\* self.translations_dict.get(language)
DictGet(dict, language) ==
    IF language \in DOMAIN dict THEN RetRow(dict[language]) ELSE RetNone

\* TranslationSourceModel.get_translation(language)
get_translation(i, e, stored, language) ==
    LET td == TranslationsDict(i, e, stored)
    IN  IF td.raised THEN RetRaise(AttributeError)
        ELSE DictGet(td.dict, language)

\* the earlier TranslationSourceModel.get_translation(language, *,
\* fallback=True) of django_nublado_translation/models.py
get_translation_fallback(i, e, stored, language, fallback) ==
    LET td == TranslationsDict(i, e, stored)
    IN  IF td.raised THEN RetRaise(AttributeError)
        ELSE IF language \in DOMAIN td.dict THEN RetRow(td.dict[language])
        ELSE IF fallback THEN RetSelf(i.pk)
        ELSE RetNone

\* TranslationSourceModel.has_translation(language)
has_translation(i, e, stored, language) ==
    LET td == TranslationsDict(i, e, stored)
    IN  IF td.raised THEN RetRaise(AttributeError)
        ELSE RetBool(language \in DOMAIN td.dict)

\* TranslationSourceModel.get_current_translation(): get_translation for
\* the language get_language() returns
get_current_translation(i, e, stored, current) ==
    get_translation(i, e, stored, current)

\* TranslationSourceModel.get_available_translation_languages(): the
\* allowed languages that are no key of translations_dict, in the order of
\* get_translation_languages()
get_available_translation_languages(i, e, stored) ==
    LET td == TranslationsDict(i, e, stored)
    IN  IF td.raised THEN RetRaise(AttributeError)
        ELSE RetList(SelectSeq(get_translation_languages,
                               LAMBDA code : code \notin DOMAIN td.dict))

(***************************************************************************)
(* Queries of TranslationSourceQuerySet.                                   *)
(***************************************************************************)
\* no instance is loaded
NoInstance ==
    [pk |-> 0, cached |-> FALSE, translations_dict |-> <<>>,
     prefetched |-> FALSE, prefetch_cache |-> {}, lookups |-> <<>>,
     fetches |-> 0, queries |-> 0, calls |-> 0]

\* a source row as objects.get(pk=pk) returns it: nothing cached, nothing
\* prefetched, one query executed
PlainInstance(pk) ==
    [NoInstance EXCEPT !.pk = pk, !.queries = 1]
\* Prefetch(lookup, queryset=queryset); a lookup given as a string is
\* Prefetch(lookup) with no queryset
Prefetch(lookup, queryset) == [prefetch_to |-> lookup, queryset |-> queryset]

\* source_model.objects: a query with no prefetch lookups
EmptyQuery == [exc |-> None, lookups |-> <<>>]

\* TranslationSourceQuerySet.prefetch_translations(queryset=None):
\* prefetch_related appends its lookup to the ones the query carries
prefetch_translations(qs, queryset) ==
    IF qs.exc # None THEN qs
    ELSE [qs EXCEPT !.lookups =
             Append(@, Prefetch(TranslationsAccessor, queryset))]

\* TranslationSourceQuerySet.prefetch_current_translation(): the queryset
\* TranslationModel.objects.filter(language=get_language()), with the
\* translation model taken from self.model.translations
prefetch_current_translation(qs, e, current) ==
    IF qs.exc # None THEN qs
    ELSE IF TranslationsAccessor \notin e.related
    THEN [qs EXCEPT !.exc = AttributeError]
    ELSE prefetch_translations(qs, current)

\* the calls chained on source_model.objects, applied in order
RECURSIVE BuildQuery(_, _, _, _)
BuildQuery(qs, e, calls, k) ==
    IF k > Len(calls) THEN qs
    ELSE BuildQuery(
             IF calls[k].method = "prefetch_translations"
             THEN prefetch_translations(qs, calls[k].queryset)
             ELSE prefetch_current_translation(qs, e, calls[k].queryset),
             e, calls, k + 1)

\* a variant of Matches in which the queryset of the Prefetch filters
\* nothing
MatchesAnything(queryset, r) == TRUE

\* is a translation row in the queryset of a Prefetch: every row when there
\* is none, else the rows of TranslationModel.objects.filter(language=...)
Matches(queryset, r) ==
    queryset = None \/ r.values["language"] = queryset

\* the one query a prefetch lookup executes for all the source rows the
\* query returned: the rows of the queryset that link to one of them
PrefetchQuery(e, stored, pks, queryset) ==
    {r \in stored :
        /\ Matches(queryset, r)
        /\ \E pk \in pks : r \in RelatedRows(e, stored, pk)}

\* a variant of PrefetchJoin in which the fetched rows are not joined to
\* their source rows
PrefetchUnjoined(e, fetched, pk) == fetched

\* the fetched rows that are put into the cache of source row pk: the ones
\* whose link is pk
PrefetchJoin(e, fetched, pk) == RelatedRows(e, fetched, pk)

\* prefetch_related_objects over the lookups of the query, in order: the
\* first lookup of a name is executed with one query; a later lookup of
\* the same name is skipped when it has no queryset and is an error when it
\* has one
RECURSIVE PrefetchRelatedObjects(_, _, _, _, _, _)
PrefetchRelatedObjects(e, stored, pks, lookups, k, done) ==
    IF k > Len(lookups) THEN done
    ELSE IF done.queries > 0
    THEN IF lookups[k].queryset # None
         THEN [done EXCEPT !.exc = ValueError]
         ELSE PrefetchRelatedObjects(e, stored, pks, lookups, k + 1, done)
    ELSE IF lookups[k].prefetch_to \notin e.related
    THEN [done EXCEPT !.exc = AttributeError]
    ELSE PrefetchRelatedObjects(e, stored, pks, lookups, k + 1,
             [done EXCEPT !.queries = @ + 1,
                          !.fetched = PrefetchQuery(e, stored, pks,
                                                    lookups[k].queryset)])

\* the query is executed and source row pk of its result is looked at: one
\* query for the source rows, then the prefetch lookups
Execute(e, stored, pks, qs, pk) ==
    IF qs.exc # None THEN [exc |-> qs.exc, inst |-> NoInstance]
    ELSE LET done == PrefetchRelatedObjects(
                         e, stored, pks, qs.lookups, 1,
                         [exc |-> None, queries |-> 0, fetched |-> {}])
         IN  IF done.exc # None THEN [exc |-> done.exc, inst |-> NoInstance]
             ELSE [exc |-> None,
                   inst |-> [PlainInstance(pk) EXCEPT
                       !.prefetched = qs.lookups # <<>>,
                       !.prefetch_cache = PrefetchJoin(e, done.fetched, pk),
                       !.lookups = qs.lookups,
                       !.queries = 1 + done.queries]]

(***************************************************************************)
(* The state machine.                                                      *)
(***************************************************************************)
\* no call was made yet
NoCall == [op |-> "none", arg |-> None, value |-> RetNone]

\* the class statement of a translation model runs the metaclass once
Derive ==
    /\ phase = "declared"
    /\ phase' = "derived"
    /\ entity' = TranslationBaseNew(decl)
    /\ UNCHANGED <<decl, sources, rows, nextId, inst, ret, other>>

\* the derived model and its table exist
Ready == phase = "derived" /\ entity.status = "ok"

\* the primary key of a new source row: the first one not in use
NewSourcePk(srcs) ==
    CHOOSE pk \in (1..MaxSources) \ srcs :
        \A free \in (1..MaxSources) \ srcs : pk <= free

\* source_model.objects.create(...): a new source row
CreateSource ==
    /\ Ready
    /\ Cardinality(sources) < MaxSources
    /\ sources' = sources \cup {NewSourcePk(sources)}
    /\ ret' = [op |-> "create_source", arg |-> None,
               value |-> RetRow(NewSourcePk(sources))]
    /\ UNCHANGED <<decl, phase, entity, rows, nextId, inst, other>>

\* translation_model.objects.create(**v): the insert succeeds, or the
\* database raises IntegrityError and stores nothing
CreateTranslation ==
    /\ Ready
    /\ \E v \in RowValues(entity, sources) :
          IF IntegrityViolated(entity, rows, v)
          THEN /\ ret' = [op |-> "create", arg |-> v,
                          value |-> RetRaise(IntegrityError)]
               /\ UNCHANGED <<rows, nextId>>
          ELSE /\ nextId <= MaxRows
               /\ rows' = rows \cup {[id |-> nextId, values |-> v]}
               /\ nextId' = nextId + 1
               /\ ret' = [op |-> "create", arg |-> v,
                          value |-> RetRow(nextId)]
    /\ UNCHANGED <<decl, phase, entity, sources, inst, other>>

\* source_model.objects.get(pk=pk): a fresh instance, nothing cached
Load ==
    /\ Ready
    /\ \E pk \in sources :
          /\ inst' = PlainInstance(pk)
          /\ ret' = [op |-> "get", arg |-> None, value |-> RetRow(pk)]
    /\ UNCHANGED <<decl, phase, entity, sources, rows, nextId, other>>

\* source_model.objects.get(pk=pk) once more, kept next to the first
\* instance: a second fresh instance, of the same source row or another
LoadOther ==
    /\ Ready
    /\ inst # NoInstance
    /\ \E pk \in sources :
          /\ other' = PlainInstance(pk)
          /\ ret' = [op |-> "get_other", arg |-> None, value |-> RetRow(pk)]
    /\ UNCHANGED <<decl, phase, entity, sources, rows, nextId, inst>>

\* the instance after one more call of a lookup on it; the calls are
\* counted as none, one, or two and more
Called(i) == [i EXCEPT !.calls = IF @ < 2 THEN @ + 1 ELSE @]

\* instance.get_translation(language)
GetTranslation ==
    /\ inst # NoInstance
    /\ \E language \in LanguageArgs :
          /\ ret' = [op |-> "get_translation", arg |-> language,
                     value |-> get_translation(inst, entity, rows, language)]
          /\ inst' = Called(AfterRead(inst, entity, rows))
    /\ other' = Bystander(other, inst, entity, rows)
    /\ UNCHANGED <<decl, phase, entity, sources, rows, nextId>>

\* get_translation(language) on the second instance
OtherGetTranslation ==
    /\ other # NoInstance
    /\ \E language \in LanguageArgs :
          /\ ret' = [op |-> "other_get_translation", arg |-> language,
                     value |-> get_translation(other, entity, rows, language)]
          /\ other' = Called(AfterRead(other, entity, rows))
    /\ inst' = Bystander(inst, other, entity, rows)
    /\ UNCHANGED <<decl, phase, entity, sources, rows, nextId>>

\* instance.get_translation(language) of the earlier models.py, called
\* with its default arguments (fallback=True)
GetTranslationFallback ==
    /\ inst # NoInstance
    /\ \E language \in LanguageArgs :
          /\ ret' = [op |-> "get_translation_fallback", arg |-> language,
                     value |-> get_translation_fallback(inst, entity, rows,
                                                        language, TRUE)]
          /\ inst' = Called(AfterRead(inst, entity, rows))
    /\ other' = Bystander(other, inst, entity, rows)
    /\ UNCHANGED <<decl, phase, entity, sources, rows, nextId>>

\* instance.has_translation(language)
HasTranslation ==
    /\ inst # NoInstance
    /\ \E language \in LanguageArgs :
          /\ ret' = [op |-> "has_translation", arg |-> language,
                     value |-> has_translation(inst, entity, rows, language)]
          /\ inst' = Called(AfterRead(inst, entity, rows))
    /\ other' = Bystander(other, inst, entity, rows)
    /\ UNCHANGED <<decl, phase, entity, sources, rows, nextId>>

\* instance.get_current_translation(), with the language that
\* get_language() returns at that moment (None when none is active)
GetCurrentTranslation ==
    /\ inst # NoInstance
    /\ \E current \in LanguageArgs \cup {None} :
          /\ ret' = [op |-> "get_current_translation", arg |-> current,
                     value |-> get_current_translation(inst, entity, rows,
                                                       current)]
          /\ inst' = Called(AfterRead(inst, entity, rows))
    /\ other' = Bystander(other, inst, entity, rows)
    /\ UNCHANGED <<decl, phase, entity, sources, rows, nextId>>

\* instance.get_available_translation_languages()
GetAvailableTranslationLanguages ==
    /\ inst # NoInstance
    /\ ret' = [op |-> "get_available_translation_languages", arg |-> None,
               value |-> get_available_translation_languages(inst, entity,
                                                             rows)]
    /\ inst' = Called(AfterRead(inst, entity, rows))
    /\ other' = Bystander(other, inst, entity, rows)
    /\ UNCHANGED <<decl, phase, entity, sources, rows, nextId>>

\* the calls a query is built from: prefetch_translations() without and
\* with a queryset filtered on Spanish, prefetch_current_translation()
\* while the active language is German
PrefetchCalls ==
    [method : {"prefetch_translations"}, queryset : {None, "es"}]
        \cup [method : {"prefetch_current_translation"}, queryset : {"de"}]

\* one call, or two calls chained
CallChains ==
    {<<c>> : c \in PrefetchCalls}
        \cup {<<c, d>> : c \in PrefetchCalls, d \in PrefetchCalls}

\* source_model.objects.<calls>: the query is executed over all the source
\* rows and one row of the result is kept
PrefetchAll ==
    /\ Ready
    /\ \E calls \in CallChains, pk \in sources :
          \E result \in {Execute(entity, rows, sources,
                                 BuildQuery(EmptyQuery, entity, calls, 1),
                                 pk)} :
              IF result.exc # None
              THEN /\ ret' = [op |-> "prefetch_all", arg |-> calls,
                              value |-> RetRaise(result.exc)]
                   /\ inst' = NoInstance
              ELSE /\ ret' = [op |-> "prefetch_all", arg |-> calls,
                              value |-> RetRow(pk)]
                   /\ inst' = result.inst
    /\ UNCHANGED <<decl, phase, entity, sources, rows, nextId, other>>

\* the translation rows the database deletes with source row pk: the rows
\* that reference it through a ForeignKey with on_delete=CASCADE
Cascaded(e, stored, pk) ==
    {r \in stored :
        \E n \in DOMAIN e.fields :
            /\ IsSourceLink(e, n)
            /\ e.fields[n].on_delete = "CASCADE"
            /\ r.values[n] = pk}

\* source.delete(): the source row goes, and with it the translation rows
\* the cascade reaches
DeleteSource ==
    /\ Ready
    /\ \E pk \in sources :
          /\ sources' = sources \ {pk}
          /\ rows' = rows \ Cascaded(entity, rows, pk)
          /\ ret' = [op |-> "delete_source", arg |-> pk, value |-> RetNone]
    /\ UNCHANGED <<decl, phase, entity, nextId, inst, other>>

\* translation.delete() on a stored translation row
DeleteTranslation ==
    /\ Ready
    /\ \E r \in rows :
          /\ rows' = rows \ {r}
          /\ ret' = [op |-> "delete", arg |-> r.id, value |-> RetNone]
    /\ UNCHANGED <<decl, phase, entity, sources, nextId, inst, other>>

\* obj.language = language; obj.full_clean() on a row of the derived model
\* whose other fields are valid
FullClean ==
    /\ Ready
    /\ \E language \in LanguageArgs :
          ret' = [op |-> "full_clean", arg |-> language,
                  value |-> clean_language(language)]
    /\ UNCHANGED <<decl, phase, entity, sources, rows, nextId, inst, other>>

\* the state before the class statement ran, for a set of class bodies
InitWith(decls) ==
    /\ decl \in decls
    /\ phase = "declared"
    /\ entity = NoEntity
    /\ sources = {}
    /\ rows = {}
    /\ nextId = 1
    /\ inst = NoInstance
    /\ other = NoInstance
    /\ ret = NoCall

\* the concrete declarations with the marker and a translatable source
ValidDeclarations ==
    {d \in Declarations :
        ~d.abstract /\ d.marker /\ d.source_model # NoSourceModel
            /\ d.source_model.translatable}

\* tests/models.py: TranslationTestModel and CustomTranslationTestModel,
\* with the mirrored unique column slug (the column name, which no
\* constraint reads, is left out), the former also with the inherited Meta
\* constraint; and declarations that mirror the columns "source" and
\* "language" of the source model
StoreDeclarations ==
    {d \in ValidDeclarations :
        \/ /\ d.source_model = TestSourceModel(TRUE)
           /\ d.translation_fields = <<"slug">>
           /\ (d.source_name = Unset) = (d.translations_name = Unset)
           /\ d.source_name # Unset => d.constraints = <<>>
        \/ /\ d.source_model \in {ArticleModel(TRUE, u) : u \in BOOLEAN}
           /\ d.translation_fields \in {<<"source">>, <<"language">>}
           /\ d.source_name = Unset /\ d.translations_name = Unset
           /\ d.constraints = <<>>}

\* the declarations the lookups run against: the translation models of
\* tests/models.py without their mirrored columns, which no lookup reads
LookupDeclarations ==
    {d \in ValidDeclarations :
        /\ d.source_model = TestSourceModel(TRUE)
        /\ d.translation_fields = <<>>
        /\ d.constraints = <<>>
        /\ (d.source_name = Unset) = (d.translations_name = Unset)}

InitDerive == InitWith(Declarations)
NextDerive == Derive
\* every class body, through the metaclass
SpecDerive == InitDerive /\ [][NextDerive]_vars

InitCascade == InitWith(StoreDeclarations)
NextCascade == Derive \/ CreateSource \/ CreateTranslation \/ DeleteSource
\* the derived models of the tests, their rows, and deletions of source
\* rows
SpecCascade == InitCascade /\ [][NextCascade]_vars

InitValidate == InitWith(Declarations)
NextValidate == Derive \/ FullClean
\* every class body, and the validation of rows of the derived models
SpecValidate == InitValidate /\ [][NextValidate]_vars

InitStore == InitWith(StoreDeclarations)
NextStore == Derive \/ CreateSource \/ CreateTranslation
\* the derived models of the tests and the rows stored in them
SpecStore == InitStore /\ [][NextStore]_vars

Init == InitWith(LookupDeclarations)
Next ==
    \/ Derive
    \/ CreateSource
    \/ CreateTranslation
    \/ Load
    \/ GetTranslation
    \/ GetTranslationFallback
    \/ HasTranslation
    \/ GetCurrentTranslation
    \/ GetAvailableTranslationLanguages
\* the lookups on source rows of the derived models of the tests
Spec == Init /\ [][Next]_vars

\* the place of a translation row in the order in which fixtures create
\* the rows: source row by source row, and in the order of LANGUAGES
FixtureOrder(e, v) ==
    LET link == CHOOSE n \in DOMAIN e.fields : IsSourceLink(e, n)
        code == CHOOSE k \in 1..Len(LANGUAGES) : LANGUAGES[k] = v["language"]
    IN  v[link] * (Len(LANGUAGES) + 1) + code

\* the sets of translation rows that k successful objects.create(...)
\* calls on the derived model, made in that order, leave in storage
RECURSIVE StoredRows(_, _, _)
StoredRows(e, srcs, k) ==
    IF k = 0 THEN {{}}
    ELSE UNION {
             {stored \cup {[id |-> k, values |-> v]} :
                 v \in {w \in RowValues(e, srcs) :
                            /\ ~IntegrityViolated(e, stored, w)
                            /\ \A r \in stored :
                                   FixtureOrder(e, r.values)
                                       < FixtureOrder(e, w)}} :
             stored \in StoredRows(e, srcs, k - 1)}

\* the state after the fixtures of a test ran: the model is derived, and
\* source rows and translation rows were created
InitPrefetch ==
    /\ decl \in LookupDeclarations
    /\ phase = "derived"
    /\ entity = TranslationBaseNew(decl)
    /\ \E n \in 1..MaxSources : sources = 1..n
    /\ \E k \in 0..MaxRows :
          /\ rows \in StoredRows(entity, sources, k)
          /\ nextId = k + 1
    /\ inst = NoInstance
    /\ other = NoInstance
    /\ ret = NoCall

NextPrefetch ==
    \/ PrefetchAll
    \/ GetTranslation
    \/ HasTranslation
\* the lookups on source rows loaded by queries that prefetch
SpecPrefetch == InitPrefetch /\ [][NextPrefetch]_vars

NextInstances ==
    \/ Load
    \/ LoadOther
    \/ GetTranslation
    \/ OtherGetTranslation
\* two instances of source rows held at a time, after the fixtures ran
SpecInstances == InitPrefetch /\ [][NextInstances]_vars

\* the state after the fixtures of a test ran that create one source row
\* and translations of it
InitStale == InitPrefetch /\ sources = {1}

NextStale ==
    \/ CreateTranslation
    \/ DeleteTranslation
    \/ Load
    \/ GetTranslation
    \/ HasTranslation
    \/ GetCurrentTranslation
    \/ GetAvailableTranslationLanguages
\* the lookups on one instance while translation rows are created and
\* deleted
SpecStale == InitStale /\ [][NextStale]_vars

(***************************************************************************)
(* Properties of the derivation (SpecDerive).                              *)
(***************************************************************************)
\* the metaclass ran and returned a concrete translation model
Derived == phase = "derived" /\ entity.status = "ok"

\* the names the declaration resolves for the link and its reverse accessor
SourceName == AttrGet(decl.source_name, "source")
TranslationsName == AttrGet(decl.translations_name, "translations")

\* the set of the elements of a sequence
Range(seq) == {seq[i] : i \in 1..Len(seq)}

\* the positions of the derived UniqueConstraints whose field set is S
UniqueOver(S) ==
    {i \in 1..Len(entity.constraints) :
        /\ entity.constraints[i].type = "UniqueConstraint"
        /\ Range(entity.constraints[i].fields) = S}

\* the source field a name of translation_fields refers to
SourceField(field_name) ==
    decl.source_model.fields[
        CHOOSE j \in SourceFieldIndex(decl.source_model, field_name) : TRUE]

\* C2 (as claimed): every derived translation model has exactly one
\* UniqueConstraint whose field set is {language, source_name}.
C2_ExactlyOneSourceConstraint ==
    Derived => Cardinality(UniqueOver({"language", SourceName})) = 1

\* C3 (as claimed): a mirrored field that is unique on the source is not
\* unique on the derived model and has exactly one UniqueConstraint over
\* {language, field}; a mirrored field that is not unique on the source has
\* no such constraint.
C3_UniquePerLanguageConstraint ==
    Derived =>
        \A i \in 1..Len(decl.translation_fields) :
            LET f == decl.translation_fields[i]
            IN  IF SourceField(f).unique
                THEN /\ ~entity.fields[f].unique
                     /\ Cardinality(UniqueOver({"language", f})) = 1
                ELSE UniqueOver({"language", f}) = {}

\* a name of translation_fields that is the source's primary key, a relation
\* of the source, or no concrete field of the source
BadFieldName(f) ==
    \/ SourceFieldIndex(decl.source_model, f) = {}
    \/ SourceField(f).primary_key
    \/ SourceField(f).is_relation

HasBadFieldName ==
    \E i \in 1..Len(decl.translation_fields) :
        BadFieldName(decl.translation_fields[i])

\* no class was registered and the source got no reverse accessor
NothingRegistered == ~entity.registered /\ entity.related = {}

\* in a derived model no mirrored field is the source's pk or a relation
NoBadFieldMirrored ==
    Derived => ~HasBadFieldName

\* C5 (as claimed, for the non-abstract declarations the metaclass derives):
\* a translation_fields list with the source's primary key, a relation or an
\* unknown name always fails with ImproperlyConfigured, and nothing is
\* registered.
C5_BadFieldAlwaysImproperlyConfigured ==
    (phase = "derived" /\ ~decl.abstract /\ HasBadFieldName) =>
        entity.status = ImproperlyConfigured /\ NothingRegistered

\* the declaration reaches the check of source_model's type and fails it
SourceTypeFails ==
    /\ ~decl.abstract
    /\ decl.marker
    /\ decl.source_model # NoSourceModel
    /\ ~decl.source_model.translatable

\* C5 (as the code behaves): on a non-abstract declaration such a translation_fields
\* list always fails and nothing is registered; the error is
\* ImproperlyConfigured, except that a declaration whose source_model does
\* not subclass TranslationSourceModel fails with ValueError first; and no
\* derived model mirrors a primary key or a relation.
C5_BadFieldAlwaysFails ==
    /\ (phase = "derived" /\ ~decl.abstract /\ HasBadFieldName) =>
           /\ entity.status = IF SourceTypeFails THEN ValueError
                              ELSE ImproperlyConfigured
           /\ NothingRegistered
    /\ NoBadFieldMirrored

\* C5 witness: a declaration with the marker and a translatable source was
\* rejected for a field of its translation_fields, after an earlier field
\* had passed
C5_Witness ==
    /\ phase = "derived"
    /\ ~decl.abstract /\ decl.marker /\ decl.source_model.translatable
    /\ Len(decl.translation_fields) = 2
    /\ ~BadFieldName(decl.translation_fields[1])
    /\ SourceFieldIndex(decl.source_model, decl.translation_fields[2]) # {}
    /\ SourceField(decl.translation_fields[2]).is_relation
    /\ entity.status = ImproperlyConfigured
    /\ NothingRegistered

\* C6 (as claimed): on a non-abstract declaration a missing marker, a
\* missing source_model and a source_model of the wrong type all fail with
\* the same error, ImproperlyConfigured.
C6_OneErrorKind ==
    (/\ phase = "derived"
     /\ ~decl.abstract
     /\ \/ ~decl.marker
        \/ decl.source_model = NoSourceModel
        \/ ~decl.source_model.translatable)
        => entity.status = ImproperlyConfigured

\* C6 (as the code behaves): on a non-abstract declaration every precondition failure
\* raises: a missing marker and a missing source_model raise
\* ImproperlyConfigured, a source_model that does not subclass
\* TranslationSourceModel raises ValueError.
C6_ErrorKinds ==
    (phase = "derived" /\ ~decl.abstract) =>
        /\ ~decl.marker => entity.status = ImproperlyConfigured
        /\ (decl.marker /\ decl.source_model = NoSourceModel)
               => entity.status = ImproperlyConfigured
        /\ SourceTypeFails => entity.status = ValueError
        /\ (\/ ~decl.marker
            \/ decl.source_model = NoSourceModel
            \/ ~decl.source_model.translatable) => NothingRegistered

\* C6 witness: a declaration with a source model of the wrong type was
\* rejected with ValueError
C6_Witness ==
    /\ phase = "derived"
    /\ SourceTypeFails
    /\ entity.status = ValueError
    /\ entity.message = "Source model must subclass TranslationSourceModel."

\* C7: an abstract declaration passes through: nothing is validated, the
\* call does not fail, and the class gets no link field, no mirrored field
\* and no constraint beyond the ones it declared.
C7_AbstractPassThrough ==
    (phase = "derived" /\ decl.abstract) =>
        /\ entity.status = "abstract"
        /\ entity.fields = InheritedFields
        /\ entity.constraints = decl.constraints
        /\ entity.related = {}

\* C7 witness: an abstract declaration without the marker, with a source
\* model of the wrong type and an unknown field name went through
C7_Witness ==
    /\ phase = "derived"
    /\ decl.abstract
    /\ ~decl.marker
    /\ decl.source_model # NoSourceModel /\ ~decl.source_model.translatable
    /\ decl.translation_fields = <<"missing">>
    /\ entity.status = "abstract"

\* the relation fields of the derived model that point at the source model
SourceLinks ==
    {n \in DOMAIN entity.fields :
        /\ entity.fields[n].is_relation
        /\ entity.fields[n].to = decl.source_model.db_table}

\* C8 (as claimed): every derived model has exactly one relation field to
\* the source model, named source_name, whose reverse accessor on the source
\* is translations_name; with custom names the model has no field "source"
\* and the source has no accessor "translations".
C8_ExactlyOneSourceLink ==
    Derived =>
        /\ SourceLinks = {SourceName}
        /\ entity.fields[SourceName].related_name = TranslationsName
        /\ entity.related = {TranslationsName}
        /\ decl.source_name # Unset => "source" \notin DOMAIN entity.fields
        /\ decl.translations_name # Unset => "translations" \notin entity.related

(***************************************************************************)
(* Properties of the stored translation rows (SpecStore).                  *)
(***************************************************************************)
\* the fields of the derived model that link a row to its source row
LinkNames == {n \in DOMAIN entity.fields : IsSourceLink(entity, n)}

\* two sets of row values reference the same source row
SameSourceRow(v, w) == \E n \in LinkNames : v[n] = w[n]

\* the last call was objects.create on the translation model and it raised
CreateFailed ==
    ret.op = "create" /\ ret.value = RetRaise(IntegrityError)

\* the last call was objects.create on the translation model and it stored
\* a row
CreateStored == ret.op = "create" /\ ret.value.kind = "row"

\* no two stored rows have the same source row and the same language
OnePerLanguagePerSource ==
    \A r, q \in rows :
        (SameSourceRow(r.values, q.values)
            /\ r.values["language"] = q.values["language"]) => r = q

\* a create whose source row and language are those of a stored row fails
DuplicateCreateFails ==
    CreateStored =>
        \A r \in rows :
            (SameSourceRow(r.values, ret.arg)
                /\ r.values["language"] = ret.arg["language"])
                => r.id = ret.value.id

\* a failed create leaves the stored rows as they were
FailedCreateStoresNothing ==
    (ret'.op = "create" /\ ret'.value.kind = "raise") => rows' = rows

\* C1: no two stored translation rows reference the same source row with
\* the same language; a create for a source row and language that already
\* have a row fails, and a failed create leaves the stored rows unchanged.
C1_OneTranslationPerLanguagePerSource ==
    /\ [](OnePerLanguagePerSource /\ DuplicateCreateFails)
    /\ [][FailedCreateStoresNothing]_vars

\* the mirrored fields of the derived model that are unique on the source
UniqueMirrored ==
    {f \in Range(decl.translation_fields) : SourceField(f).unique}

\* C1 witness: a create for the source row and language of a stored row was
\* refused, although its values differ from that row's in every mirrored
\* unique field
C1_Witness ==
    /\ Ready
    /\ CreateFailed
    /\ LinkNames # {}
    /\ \E r \in rows :
           /\ SameSourceRow(r.values, ret.arg)
           /\ r.values["language"] = ret.arg["language"]
           /\ \A f \in UniqueMirrored : r.values[f] # ret.arg[f]
    /\ \A r \in rows : \A f \in UniqueMirrored : r.values[f] # ret.arg[f]

\* the inline CheckConstraint refuses the language of the new row
LanguageRefused(v) ==
    \E i \in 1..Len(entity.constraints) :
        CheckViolated(entity.constraints[i], v)

\* C4: a mirrored field that is unique on the source is unique per language
\* and not globally: no two stored rows of one language share its value,
\* whatever their source rows, and a create is refused only when a stored
\* row of the same language shares a further value with it (or the declared
\* check on the language refuses it), so a value already stored under
\* another language only is accepted.
C4_UniquePerLanguageNotGlobal ==
    Ready =>
        /\ \A f \in UniqueMirrored : \A r, q \in rows :
               (r.values["language"] = q.values["language"]
                   /\ r.values[f] = q.values[f]) => r = q
        /\ CreateFailed =>
               \/ LanguageRefused(ret.arg)
               \/ \E r \in rows :
                      /\ r.values["language"] = ret.arg["language"]
                      /\ \E n \in DOMAIN entity.fields \ {"language"} :
                             r.values[n] = ret.arg[n]

\* C4 witness: two stored rows of different languages hold the same value
\* of a mirrored unique field, and a create with that value in one of these
\* languages for another source row was refused
C4_Witness ==
    /\ Ready
    /\ CreateFailed
    /\ LinkNames # {}
    /\ \E f \in UniqueMirrored :
           /\ \E r, q \in rows :
                  /\ r.values["language"] # q.values["language"]
                  /\ r.values[f] = q.values[f]
                  /\ r.values[f] = ret.arg[f]
           /\ \E r \in rows :
                  /\ r.values["language"] = ret.arg["language"]
                  /\ r.values[f] = ret.arg[f]
                  /\ ~SameSourceRow(r.values, ret.arg)
           /\ \A r \in rows : ~(/\ SameSourceRow(r.values, ret.arg)
                                /\ r.values["language"] = ret.arg["language"])

(***************************************************************************)
(* Properties of the lookups (Spec).                                       *)
(***************************************************************************)
\* the stored row with primary key id is a translation of source row pk in
\* the given language
IsTranslationOf(id, pk, language) ==
    \E r \in rows :
        /\ r.id = id
        /\ r.values["language"] = language
        /\ \E n \in LinkNames : r.values[n] = pk

\* C9 (as claimed): get_translation never raises; it returns the row of
\* the instance's collection whose language is the given one, a
\* translation of that source row in that language, and None when the
\* collection has no row of that language.
C9_GetTranslationReturnsRowOrNone ==
    ret.op = "get_translation" =>
        /\ ret.value.kind # "raise"
        /\ inst.cached
        /\ ret.value = DictGet(inst.translations_dict, ret.arg)
        /\ ret.value.kind = "row" =>
               IsTranslationOf(ret.value.id, inst.pk, ret.arg)

\* a call returned something that is not None
NonNull(value) == value.kind \in {"row", "self"}

\* C10 (as claimed): has_translation(language) is True exactly when
\* get_translation(language), called with its default arguments on the
\* same instance, returns something other than None; for the
\* get_translation of either models.py.
C10_HasTranslationIffGetTranslation ==
    ret.op = "has_translation" =>
        /\ (ret.value.kind = "True") <=>
               NonNull(get_translation(inst, entity, rows, ret.arg))
        /\ (ret.value.kind = "True") <=>
               NonNull(get_translation_fallback(inst, entity, rows,
                                                ret.arg, TRUE))

\* the position of a language in the allowed translation languages
AllowedIndex(code) ==
    CHOOSE k \in 1..Len(get_translation_languages) :
        get_translation_languages[k] = code

\* the allowed languages for which has_translation on the instance is False
Untranslated ==
    {code \in Range(get_translation_languages) :
        has_translation(inst, entity, rows, code) = RetBool(FALSE)}

\* C11 (as claimed): get_available_translation_languages returns a list
\* that holds exactly the allowed translation languages for which
\* has_translation is False, each once, in the order of the allowed
\* languages; the empty list when every allowed language has a translation.
C11_AvailableLanguages ==
    ret.op = "get_available_translation_languages" =>
        /\ ret.value.kind = "list"
        /\ Range(ret.value.items) = Untranslated
        /\ Len(ret.value.items) = Cardinality(Untranslated)
        /\ \A a, b \in 1..Len(ret.value.items) :
               a < b => AllowedIndex(ret.value.items[a])
                            < AllowedIndex(ret.value.items[b])

\* C11 for the source rows whose translation model keeps the default
\* translations_name
C11_AvailableLanguagesDefaultName ==
    decl.translations_name = Unset => C11_AvailableLanguages

\* C12: whatever lookups are called on one source row instance, with
\* whatever languages, the translation collection of the row is fetched
\* from storage at most once; and once it was, the dict is kept on the
\* instance.
C12_FetchAtMostOnce ==
    /\ inst.fetches <= 1
    /\ inst.fetches = 1 => inst.cached

\* C12 witness: a second lookup was answered by an instance that fetched
\* its collection, a collection that holds a row, once
C12_Witness ==
    /\ inst.calls >= 2
    /\ inst.fetches = 1
    /\ ~inst.prefetched
    /\ DOMAIN inst.translations_dict # {}
    /\ ret.op = "get_available_translation_languages"

(***************************************************************************)
(* Properties of the prefetching queries (SpecPrefetch).                   *)
(***************************************************************************)
\* the last step executed a query that returned the source row in inst
Prefetched == ret.op = "prefetch_all" /\ ret.value.kind = "row"

\* the stored translations of source row pk, by their link
StoredTranslations(pk) ==
    {r \in rows : \E n \in LinkNames : r.values[n] = pk}

\* C13: a lookup on a source row that a prefetch_translations query
\* returned fetches nothing, and the query and the lookups together execute
\* two queries, however many source rows the query returned.
C13_PrefetchedLookupsFetchNothing ==
    inst.prefetched =>
        /\ inst.fetches = 0
        /\ inst.queries + inst.fetches = 2

\* C13 witness: of two source rows that a prefetching query returned, one
\* answered get_translation with a row and fetched nothing
C13_Witness ==
    /\ inst.prefetched
    /\ Cardinality(sources) >= 2
    /\ ret.op = "get_translation"
    /\ ret.value.kind = "row"
    /\ inst.calls >= 1
    /\ inst.fetches = 0

\* the query source_model.objects.prefetch_translations()
UnfilteredCalls ==
    <<[method |-> "prefetch_translations", queryset |-> None]>>

\* C14: get_translation on a source row that an unfiltered
\* prefetch_translations() query returned gives what get_translation gives
\* on the same row loaded without prefetching, for the same stored rows and
\* every language; where that query raises, so does the lookup on the row
\* loaded without prefetching.
C14_PrefetchEquivalence ==
    /\ (/\ ret.op = "get_translation"
        /\ inst.prefetched
        /\ inst.lookups = <<Prefetch(TranslationsAccessor, None)>>)
           => ret.value = get_translation(PlainInstance(inst.pk), entity,
                                          rows, ret.arg)
    /\ (/\ ret.op = "prefetch_all"
        /\ ret.arg = UnfilteredCalls
        /\ ret.value.kind = "raise")
           => \A pk \in sources, language \in LanguageArgs :
                  get_translation(PlainInstance(pk), entity, rows, language)
                      = ret.value

\* C14 witness: while another source row has translations too, a row
\* returned by prefetch_translations() answered get_translation with one
\* of its translations
C14_Witness ==
    /\ ret.op = "get_translation"
    /\ inst.prefetched
    /\ inst.lookups = <<Prefetch(TranslationsAccessor, None)>>
    /\ ret.value.kind = "row"
    /\ \E r \in rows :
           /\ r \notin StoredTranslations(inst.pk)
           /\ r.values["language"] = ret.arg

\* the instance was returned by a query with one prefetch, whose queryset
\* is filtered on a language
FilteredOn(code) ==
    /\ inst.prefetched
    /\ Len(inst.lookups) = 1
    /\ code # None
    /\ inst.lookups[1].queryset = code

\* C15: after a prefetch with a filtered queryset the collection of a
\* returned source row holds exactly its stored translations that match
\* the filter, and get_translation and has_translation answer from it: for
\* a language the filter excludes they return None and False, also when
\* storage holds a translation of the row in that language.
C15_FilteredPrefetch ==
    \A code \in LanguageArgs :
        FilteredOn(code) =>
            /\ Prefetched =>
                   inst.prefetch_cache =
                       {r \in StoredTranslations(inst.pk) :
                           r.values["language"] = code}
            /\ ret.op = "get_translation" =>
                   IF ret.arg = code
                       /\ \E r \in StoredTranslations(inst.pk) :
                              r.values["language"] = code
                   THEN /\ ret.value.kind = "row"
                        /\ IsTranslationOf(ret.value.id, inst.pk, code)
                   ELSE ret.value = RetNone
            /\ ret.op = "has_translation" =>
                   ret.value = RetBool(
                       /\ ret.arg = code
                       /\ \E r \in StoredTranslations(inst.pk) :
                              r.values["language"] = code)

\* C15 witness: a row returned by a query that prefetched the Spanish
\* translations answered get_translation("de") with None although storage
\* holds its German translation
C15_Witness ==
    /\ FilteredOn("es")
    /\ inst.lookups[1] = Prefetch(TranslationsAccessor, "es")
    /\ ret.op = "get_translation"
    /\ ret.arg = "de"
    /\ ret.value = RetNone
    /\ \E r \in StoredTranslations(inst.pk) : r.values["language"] = "de"
    /\ \E r \in inst.prefetch_cache : r.values["language"] = "es"

\* C16 (as claimed, for the source models that have the accessor
\* "translations"): a query on which prefetch_translations or
\* prefetch_current_translation was applied twice executes without error,
\* and the collection of a returned row is the one of the second prefetch.
C16_PrefetchTwice ==
    (/\ ret.op = "prefetch_all"
     /\ Len(ret.arg) = 2
     /\ TranslationsAccessor \in entity.related)
        => /\ ret.value.kind = "row"
           /\ inst.prefetch_cache =
                  {r \in StoredTranslations(inst.pk) :
                      \/ ret.arg[2].queryset = None
                      \/ r.values["language"] = ret.arg[2].queryset}

\* C16 for a query on which the unfiltered prefetch_translations() was
\* applied twice
C16_UnfilteredTwice ==
    (ret.op = "prefetch_all" /\ ret.arg = UnfilteredCalls \o UnfilteredCalls)
        => C16_PrefetchTwice

(***************************************************************************)
(* Properties of the languages of translation rows.                        *)
(***************************************************************************)
\* C17 (as claimed): the language of every stored translation row is a
\* configured language other than the source language.
C17_StoredLanguagesAllowed ==
    \A r \in rows : r.values["language"] \in Range(get_translation_languages)

\* C17 for the derived models whose Meta carries the CheckConstraint of the
\* earlier TranslationLanguageModel
C17_WithCheckConstraint ==
    decl.constraints = <<LanguageCheckConstraint>>
        => C17_StoredLanguagesAllowed

\* the configured languages other than the source language
ConfiguredButSource == Range(LANGUAGES) \ {SOURCE_LANGUAGE}

\* the positions of LANGUAGES, in order, that do not hold the source
\* language
KeptPositions(n) ==
    {k \in 1..n : LANGUAGES[k] # SOURCE_LANGUAGE}

C19_EveryRowHasItsSource ==
    Ready =>
        \A r \in rows :
            \E n \in LinkNames :
                /\ LinkNames = {n}
                /\ r.values[n] \in sources

\* C19 for the derived models that have their link to the source model
C19_WithLink ==
    LinkNames # {} => C19_EveryRowHasItsSource

\* the deletion of a source row removes its translation rows and leaves the
\* translation rows of the other source rows as they were
C19_DeleteLeavesOthers ==
    [][ret'.op = "delete_source" /\ sources' # sources =>
          \A r \in rows :
              IF \E n \in LinkNames : r.values[n] = ret'.arg
              THEN r \notin rows'
              ELSE r \in rows']_vars

(***************************************************************************)
(* Properties of the order and the names of the constraints (SpecDerive).  *)
(***************************************************************************)
\* the positions of translation_fields that name a field unique on the
\* source; with first set, only the first position of each name
UniquePositions(first) ==
    {i \in 1..Len(decl.translation_fields) :
        /\ SourceField(decl.translation_fields[i]).unique
        /\ first => \A j \in 1..(i - 1) :
                        decl.translation_fields[j] # decl.translation_fields[i]}

\* the constraint list is: the declared constraints, the constraint on
\* {language, source_name} under its name, and one constraint per given
\* position of translation_fields, in their order, under their names
ConstraintsInOrder(positions) ==
    LET inline == Len(decl.constraints)
        table == decl.source_model.db_table
    IN  /\ Len(entity.constraints) = inline + 1 + Cardinality(positions)
        /\ \A i \in 1..inline : entity.constraints[i] = decl.constraints[i]
        /\ entity.constraints[inline + 1] =
               [type |-> "UniqueConstraint",
                fields |-> <<"language", SourceName>>,
                name |-> table \o "_language_source_unique"]
        /\ \A i \in positions :
               entity.constraints[
                   inline + 1 + Cardinality({j \in positions : j <= i})] =
                   [type |-> "UniqueConstraint",
                    fields |-> <<"language", decl.translation_fields[i]>>,
                    name |-> table \o "_language_"
                                \o decl.translation_fields[i] \o "_unique"]

C20_ConstraintPerDistinctField ==
    Derived => ConstraintsInOrder(UniquePositions(TRUE))

(***************************************************************************)
(* Properties of get_current_translation (Spec).                           *)
(***************************************************************************)
\* the last call was get_current_translation while get_language() returned
\* the given language
CurrentTranslationCalled(current) ==
    ret.op = "get_current_translation" /\ ret.arg = current

\* C21 (as claimed): get_current_translation never raises; it returns the
\* row of the instance's collection whose language is the language
\* get_language() returned at the call, a translation of that source row in
\* that language, and None when the collection has no row of that language
\* and when that language is the source language.
C21_CurrentTranslation ==
    ret.op = "get_current_translation" =>
        /\ ret.value.kind # "raise"
        /\ inst.cached
        /\ ret.value = DictGet(inst.translations_dict, ret.arg)
        /\ ret.value.kind = "row" =>
               IsTranslationOf(ret.value.id, inst.pk, ret.arg)
        /\ ret.arg = SOURCE_LANGUAGE => ret.value = RetNone

\* C21 for the source rows whose translation model keeps the default
\* translations_name, while the current language is not the source language
C21_DefaultNameOtherLanguage ==
    (/\ ret.op = "get_current_translation"
     /\ decl.translations_name = Unset
     /\ ret.arg # SOURCE_LANGUAGE) => C21_CurrentTranslation

\* C21, whatever the names and the language: get_current_translation
\* returns or raises what get_translation does on the same instance for the
\* language get_language() returned at the call
C21_SameAsGetTranslation ==
    [][ret'.op = "get_current_translation" =>
          ret'.value = get_translation(inst, entity, rows, ret'.arg)]_vars

\* a source row with a stored translation in the source language answered
\* get_current_translation, while the source language was the current one,
\* with that row
C21_SourceLanguageRowReturned ==
    /\ CurrentTranslationCalled(SOURCE_LANGUAGE)
    /\ ret.value.kind = "row"
    /\ IsTranslationOf(ret.value.id, inst.pk, SOURCE_LANGUAGE)

(***************************************************************************)
(* Properties of the cache of two instances (SpecInstances).               *)
(***************************************************************************)
\* an instance that holds a dict fetched its collection itself, once
FetchedItsOwn(i) == i.cached => i.fetches = 1

\* a lookup on one of the two instances leaves the other one as it was
LookupLeavesTheOtherInstance ==
    /\ ret'.op = "get_translation" => other' = other
    /\ ret'.op = "other_get_translation" => inst' = inst

\* C22: the cached dict is local to the instance: a lookup on one instance
\* neither populates nor changes the cache of another instance, an instance
\* of the same source row included, and every instance that holds a dict
\* got it by a fetch of its own on its first lookup.
C22_CacheLocalToInstance ==
    /\ [](FetchedItsOwn(inst) /\ FetchedItsOwn(other))
    /\ [][LookupLeavesTheOtherInstance]_vars

\* C22 witness: the second instance of a source row with translations
\* answered its first lookup by its own fetch, while the first instance of
\* that row already held its dict
C22_Witness ==
    /\ ret.op = "other_get_translation"
    /\ ret.value.kind = "row"
    /\ other.pk = inst.pk
    /\ other.calls = 1
    /\ other.fetches = 1
    /\ inst.cached
    /\ inst.fetches = 1

(***************************************************************************)
(* Properties of the copied fields (SpecDerive).                           *)
(***************************************************************************)
\* the field of the source model, after the derivation, that a name of
\* translation_fields refers to
SourceFieldAfter(field_name) ==
    entity.source_fields[
        CHOOSE j \in SourceFieldIndex(decl.source_model, field_name) : TRUE]

\* C23: a successful derivation leaves the fields of the source model as
\* they were (the reverse accessor is no field of its list), and every
\* mirrored field of the derived model is the source field but for its
\* unique flag: a field unique on the source is still unique on the source
\* and its copy is not unique.
C23_CopiesLeaveSourceUnchanged ==
    Derived =>
        /\ entity.source_fields = decl.source_model.fields
        /\ \A i \in 1..Len(decl.translation_fields) :
               LET f == decl.translation_fields[i]
               IN  /\ entity.fields[f] = [SourceField(f) EXCEPT !.unique = FALSE]
                   /\ SourceField(f).unique =>
                          /\ SourceFieldAfter(f).unique
                          /\ ~entity.fields[f].unique

\* C23 witness: a derived model mirrors a field unique on the source and a
\* field not unique on it; the copy of the former is not unique and the
\* source field still is
C23_Witness ==
    /\ Derived
    /\ Len(decl.translation_fields) = 2
    /\ SourceField(decl.translation_fields[1]).unique
    /\ ~SourceField(decl.translation_fields[2]).unique
    /\ ~entity.fields[decl.translation_fields[1]].unique
    /\ SourceFieldAfter(decl.translation_fields[1]).unique
    /\ entity.related # {}

(***************************************************************************)
(* Properties of the lookups under changing storage (SpecStale).           *)
(***************************************************************************)
\* the names of the four lookups, as ret.op records them
LookupOps ==
    {"get_translation", "has_translation", "get_current_translation",
     "get_available_translation_languages"}

\* what a lookup answers from a given dict
AnswerFrom(dict, op, arg) ==
    CASE op = "get_translation" -> DictGet(dict, arg)
      [] op = "get_current_translation" -> DictGet(dict, arg)
      [] op = "has_translation" -> RetBool(arg \in DOMAIN dict)
      [] op = "get_available_translation_languages" ->
             RetList(SelectSeq(get_translation_languages,
                               LAMBDA code : code \notin DOMAIN dict))

\* a lookup on an instance that holds its dict answers from that dict and
\* leaves it as it is
LaterLookupAnswersFromFirstFetch ==
    (inst.cached /\ inst'.pk = inst.pk /\ ret'.op \in LookupOps) =>
        /\ ret'.value = AnswerFrom(inst.translations_dict, ret'.op, ret'.arg)
        /\ inst'.translations_dict = inst.translations_dict
        /\ inst'.fetches = inst.fetches

\* a creation or a deletion of a translation row leaves the instance as it
\* is
StorageChangeLeavesInstance ==
    ret'.op \in {"create", "delete"} => inst' = inst

\* C24: once an instance has answered its first lookup, every later lookup
\* on it answers from the collection fetched at that first access:
\* translation rows created or deleted in storage afterwards change
\* neither the dict the instance holds nor what its lookups return.
C24_FirstFetchWins ==
    [][LaterLookupAnswersFromFirstFetch /\ StorageChangeLeavesInstance]_vars

\* the dict the instance would build from the stored rows now
DictOfStorage == DictOf(RelatedRows(entity, rows, inst.pk))

\* C24 witness: after its first lookup a translation of the instance's
\* source row was deleted and another was created; a later lookup returned
\* the deleted row, and the dict of the instance has no entry for the
\* created one
C24_Witness ==
    /\ inst.calls >= 2
    /\ ret.op = "get_translation"
    /\ ret.value.kind = "row"
    /\ \A r \in rows : r.id # ret.value.id
    /\ \E l \in DOMAIN DictOfStorage : l \notin DOMAIN inst.translations_dict

(***************************************************************************)
(* Properties of the reverse accessor's name (Spec, SpecPrefetch).         *)
(***************************************************************************)
\* C25 (as claimed), the lookups: whatever translations_name the
\* translation model declares, a lookup on a source row completes without
\* error and answers from the collection of the translation rows that link
\* to that source row.
C25_LookupsUnderAnyName ==
    ret.op \in LookupOps =>
        /\ ret.value.kind # "raise"
        /\ inst.cached
        /\ ret.value = AnswerFrom(inst.translations_dict, ret.op, ret.arg)
        /\ \A l \in DOMAIN inst.translations_dict :
               IsTranslationOf(inst.translations_dict[l], inst.pk, l)

\* C25 (as claimed), the queries: whatever translations_name the
\* translation model declares, a query built with prefetch_translations or
\* prefetch_current_translation does not fail for want of the accessor, and
\* the collection it prefetches for a source row holds translation rows
\* that link to that row only.
C25_PrefetchUnderAnyName ==
    ret.op = "prefetch_all" =>
        /\ ret.value # RetRaise(AttributeError)
        /\ ret.value.kind = "row" =>
               inst.prefetch_cache \subseteq StoredTranslations(inst.pk)

\* C25 for the translation models that keep the default translations_name
C25_DefaultName ==
    decl.translations_name = Unset =>
        C25_LookupsUnderAnyName /\ C25_PrefetchUnderAnyName

\* every lookup on a source row whose translation model declares another
\* translations_name raises AttributeError, and so does every such query
C25_CustomNameAlwaysRaises ==
    (decl.translations_name # Unset
        /\ ret.op \in LookupOps \cup {"prefetch_all"})
        => ret.value = RetRaise(AttributeError)

(***************************************************************************)
(* Properties of the names of the mirrored fields (SpecDerive).            *)
(***************************************************************************)
\* C26 (as claimed): in every derived model the field language is the
\* field with the language choices that TranslationLanguageModel declares,
\* and the field source_name is the ForeignKey to the source model,
\* whatever names translation_fields holds.
C26_LanguageAndLinkKept ==
    Derived =>
        /\ entity.fields["language"] = LanguageField
        /\ entity.fields[SourceName] =
               SourceForeignKey(decl.source_model, SourceName,
                                TranslationsName)

\* the names of the fields the metaclass itself gives the derived model
OwnNames == {"language", SourceName}

\* C26 for the declarations whose translation_fields holds neither
\* "language" nor source_name
C26_WithoutCollision ==
    Range(decl.translation_fields) \cap OwnNames = {} =>
        C26_LanguageAndLinkKept

\* a derived model whose translation_fields holds "language" or
\* source_name has, under that name, the copy of the source's column: the
\* derivation succeeds and the field of the metaclass is gone
C26_CollisionReplaces ==
    Derived =>
        \A f \in Range(decl.translation_fields) \cap OwnNames :
            /\ entity.fields[f] = [SourceField(f) EXCEPT !.unique = FALSE]
            /\ entity.fields[f] # LanguageField
            /\ ~entity.fields[f].is_relation

====
